---- MODULE Spec2Model ----
(***************************************************************************)
(* Model of the rag-system pipeline: RAGPipeline (src/src/rag_pipeline.py) *)
(* over DocumentLoader, TextProcessor, VectorStore, DocumentRetriever and  *)
(* ResponseGenerator.  Every public operation of the pipeline is one       *)
(* action; `last` records what the most recent operation did (the calls it *)
(* made on its collaborators, the error it raised, the value it returned). *)
(***************************************************************************)
EXTENDS Integers, Sequences, FiniteSets, TLC

\* ------------------------------------------------------------------ bounds
\* the documents given to a TextProcessor hold at most MaxTextLen characters
MaxTextLen == 5
\* a TextProcessor is constructed with a chunk size of at most MaxChunkSize
MaxChunkSize == 3
\* the persisted collection holds at most MaxRecords records
MaxRecords == 2
\* Chroma objects are told apart by MaxHandles identities, reused in turn
MaxHandles == 2

\* ------------------------------------------------------- program constants
\* Python's None, and None where an int is expected
None == "None"
NoneInt == -1
\* Python truthiness of an optional int (None and 0 are falsy)
Falsy(x) == x = NoneInt \/ x = 0
\* Settings.retrieval_top_k default
SettingsTopK == 5
\* Settings.chunk_size default
SettingsChunkSize == 1000
\* Settings.chunk_overlap default
SettingsChunkOverlap == 200
\* Settings.retrieval_search_type default
SettingsSearchType == "similarity"

\* SUPPORTED_LOADERS.keys()
SUPPORTED_LOADERS == <<".pdf", ".txt", ".md", ".docx", ".doc">>

\* ------------------------------------------------------------- sequences
Range(s) == {s[i] : i \in 1..Len(s)}

RECURSIVE Concat(_)
Concat(ss) == IF ss = <<>> THEN <<>> ELSE Head(ss) \o Concat(Tail(ss))

SelectSeqBy(s, keep) ==
  LET F[i \in 0..Len(s)] ==
        IF i = 0 THEN <<>>
        ELSE IF s[i] \in keep THEN Append(F[i-1], s[i]) ELSE F[i-1]
  IN F[Len(s)]

\* ---------------------------------------------------------- the file system
\* The documents on disk the loader is pointed at.  Each entry is one path:
\* whether it exists, whether it is a directory, its lower-cased suffix, the
\* directory that holds it (depth 1 = directly, 2 = in a sub-directory),
\* whether its format loader succeeds, and the text it loads.
Path == {"a.txt", "b.md", "bad.pdf", "c.txt", "notes.csv", "missing.txt",
         "docs", "empty", "broken", "nodir"}

FileTable ==
  [p \in Path |->
    CASE p = "a.txt"       -> [exists |-> TRUE,  is_dir |-> FALSE, suffix |-> ".txt",
                               dir |-> "docs", depth |-> 1, loads |-> TRUE,
                               text |-> <<"a", "b", " ", "c", "d", "e">>]
      [] p = "b.md"        -> [exists |-> TRUE,  is_dir |-> FALSE, suffix |-> ".md",
                               dir |-> "docs", depth |-> 1, loads |-> TRUE,
                               text |-> <<"x", "y">>]
      [] p = "bad.pdf"     -> [exists |-> TRUE,  is_dir |-> FALSE, suffix |-> ".pdf",
                               dir |-> "broken", depth |-> 1, loads |-> FALSE,
                               text |-> <<>>]
      [] p = "c.txt"       -> [exists |-> TRUE,  is_dir |-> FALSE, suffix |-> ".txt",
                               dir |-> "docs", depth |-> 2, loads |-> FALSE,
                               text |-> <<>>]
      [] p = "notes.csv"   -> [exists |-> TRUE,  is_dir |-> FALSE, suffix |-> ".csv",
                               dir |-> "docs", depth |-> 1, loads |-> TRUE,
                               text |-> <<"n">>]
      [] p = "missing.txt" -> [exists |-> FALSE, is_dir |-> FALSE, suffix |-> ".txt",
                               dir |-> None, depth |-> 0, loads |-> FALSE,
                               text |-> <<>>]
      [] p = "docs"        -> [exists |-> TRUE,  is_dir |-> TRUE,  suffix |-> "",
                               dir |-> None, depth |-> 0, loads |-> FALSE,
                               text |-> <<>>]
      [] p = "empty"       -> [exists |-> TRUE,  is_dir |-> TRUE,  suffix |-> "",
                               dir |-> None, depth |-> 0, loads |-> FALSE,
                               text |-> <<>>]
      [] p = "broken"      -> [exists |-> TRUE,  is_dir |-> TRUE,  suffix |-> "",
                               dir |-> None, depth |-> 0, loads |-> FALSE,
                               text |-> <<>>]
      [] p = "nodir"       -> [exists |-> FALSE, is_dir |-> FALSE, suffix |-> "",
                               dir |-> None, depth |-> 0, loads |-> FALSE,
                               text |-> <<>>]]

\* the paths in sorted order (all_files.sort())
SortedFiles == <<"a.txt", "b.md", "bad.pdf", "c.txt", "notes.csv">>

\* a Document: page_content and the metadata the loader sets (its source)
Document(p) == [page_content |-> FileTable[p].text, source |-> p]

\* A result of a call that may raise: error = "none" and a value, or the
\* name of the exception raised.
Ok(v) == [error |-> "none", value |-> v]
Raise(e) == [error |-> e, value |-> <<>>]

\* the documents of a load that succeeded, nothing for one that raised
ValueOrSkip(loaded) == IF loaded.error = "none" THEN loaded.value ELSE <<>>

\* the list if it is not empty, else the error
NonEmptyOr(all_documents, e) ==
  IF all_documents = <<>> THEN Raise(e) ELSE Ok(all_documents)

\* DocumentLoader.load_file
load_file(file_path) ==
  IF ~FileTable[file_path].exists THEN Raise("FileNotFoundError")
  ELSE IF FileTable[file_path].suffix \notin Range(SUPPORTED_LOADERS)
    THEN Raise("ValueError")
  ELSE IF ~FileTable[file_path].loads THEN Raise("LoaderError")
  ELSE Ok(<<Document(file_path)>>)

\* file_types=None, and the extension list_files normalises a type to
NoFileTypes == {None}
NormalizeExt(ext) ==
  CASE ext = "txt" -> ".txt"
    [] ext = "csv" -> ".csv"
    [] OTHER -> ext

\* DocumentLoader.list_files
list_files(directory, file_types, recursive) ==
  IF ~FileTable[directory].exists THEN Raise("FileNotFoundError")
  ELSE IF ~FileTable[directory].is_dir THEN Raise("ValueError")
  ELSE
    LET types == IF file_types = NoFileTypes THEN Range(SUPPORTED_LOADERS)
                 ELSE {NormalizeExt(e) : e \in file_types}
                        \cap Range(SUPPORTED_LOADERS)
        found == {p \in Path :
                    /\ FileTable[p].exists /\ ~FileTable[p].is_dir
                    /\ FileTable[p].dir = directory
                    /\ FileTable[p].suffix \in types
                    /\ (recursive \/ FileTable[p].depth = 1)}
    IN Ok(SelectSeqBy(SortedFiles, found))

\* a loop that lets the first failure out
LoadFiles_FailFast(files) ==
  IF files.error # "none" THEN files
  ELSE IF files.value = <<>> THEN Raise("ValueError")
  ELSE IF \E i \in 1..Len(files.value) : load_file(files.value[i]).error # "none"
    THEN Raise("LoaderError")
  ELSE Ok(Concat([i \in 1..Len(files.value) |->
                    load_file(files.value[i]).value]))

\* load_directory, the loop over the files found: a file that fails to load
\* is skipped; no document at all is an error
LoadFiles(files) ==
  IF files.error # "none" THEN files
  ELSE IF files.value = <<>> THEN Raise("ValueError")
  ELSE NonEmptyOr(Concat([i \in 1..Len(files.value) |->
                            ValueOrSkip(load_file(files.value[i]))]),
                  "ValueError")

\* DocumentLoader.load_directory
load_directory(directory, file_types, recursive) ==
  LoadFiles(list_files(directory, file_types, recursive))

\* DocumentLoader.load_documents
load_documents(file_path, directory, file_types, recursive) ==
  IF file_path # None THEN load_file(file_path)
  ELSE IF directory # None THEN load_directory(directory, file_types, recursive)
  ELSE Raise("ValueError")

\* ------------------------------------------------------------ TextProcessor
\* Text is a sequence of one-character strings.
\* the default separators of TextProcessor.__init__
DefaultSeparators ==
  << <<"\n", "\n", "C", "h", "a", "p", "t", "e", "r">>,
     <<"\n", "\n">>,
     <<"\n">>,
     <<" ">>,
     <<>> >>

Whitespace == {" ", "\n"}

\* does sub occur in text at 1-based position i
OccursAt(text, sub, i) ==
  /\ i >= 1
  /\ i + Len(sub) - 1 <= Len(text)
  /\ \A j \in 1..Len(sub) : text[i + j - 1] = sub[j]

\* the least element of a set of indices, -1 for the empty set
MinOrNone(hits) ==
  IF hits = {} THEN -1 ELSE CHOOSE i \in hits : \A j \in hits : i <= j

\* the greatest element of a non-empty set of indices
Max(hits) == CHOOSE i \in hits : \A j \in hits : i >= j

\* str.find(sub, start): 0-based index of the first occurrence at or after
\* start, -1 when there is none
Find(text, sub, start) ==
  MinOrNone({i \in start..Len(text) : OccursAt(text, sub, i + 1)})

\* the text between its first and last kept positions
Between(text, keep) ==
  IF keep = {} THEN <<>> ELSE SubSeq(text, MinOrNone(keep), Max(keep))

\* str.strip()
Strip(text) ==
  Between(text, {i \in 1..Len(text) : text[i] \notin Whitespace})

\* re.split(separator, text) for a non-empty literal separator
RECURSIVE ReSplit(_, _)
\* the split at the first match, 0-based index `at` (-1: no match)
ReSplitAt(text, separator, at) ==
  IF at = -1 THEN <<text>>
  ELSE <<SubSeq(text, 1, at)>>
         \o ReSplit(SubSeq(text, at + Len(separator) + 1, Len(text)), separator)

\* (the text is evaluated once, before it is searched)
ReSplit(text, separator) ==
  CHOOSE pieces \in {ReSplitAt(t, separator, Find(t, separator, 0)) :
                       t \in {text}} : TRUE

\* the pieces with each separator put back at the start of the piece after it
KeepSeparator(pieces, separator) ==
  [i \in 1..Len(pieces) |->
     IF i = 1 THEN pieces[1] ELSE separator \o pieces[i]]

\* _split_text_with_regex with keep_separator=True: each separator stays at
\* the start of the piece that follows it; list(text) for the empty
\* separator; empty pieces are dropped
SplitTextWithRegex(text, separator) ==
  SelectSeq(IF separator = <<>> THEN [i \in 1..Len(text) |-> <<text[i]>>]
            ELSE KeepSeparator(ReSplit(text, separator), separator),
            LAMBDA x : x # <<>>)

\* TextSplitter._join_docs with strip_whitespace=True: None (here <<>>) when
\* the stripped text is empty
JoinDocs(current_doc, separator) ==
  LET F[i \in 0..Len(current_doc)] ==
        IF i = 0 THEN <<>>
        ELSE IF i = 1 THEN current_doc[1]
        ELSE F[i-1] \o separator \o current_doc[i]
  IN Strip(F[Len(current_doc)])

\* the while loop of _merge_splits: pop pieces from the front of current_doc
\* until the kept tail is within the overlap and the next piece fits
RECURSIVE PopFront(_, _, _, _, _, _)
PopFront(current_doc, total, dlen, seplen, chunk_size, chunk_overlap) ==
  IF \/ total > chunk_overlap
     \/ /\ total + dlen + (IF Len(current_doc) > 0 THEN seplen ELSE 0) > chunk_size
        /\ total > 0
  THEN PopFront(Tail(current_doc),
                total - (Len(current_doc[1])
                         + (IF Len(current_doc) > 1 THEN seplen ELSE 0)),
                dlen, seplen, chunk_size, chunk_overlap)
  ELSE [current_doc |-> current_doc, total |-> total]

\* _merge_splits: docs.append(doc) unless _join_docs gave None
AppendDoc(docs, doc) == IF doc = <<>> THEN docs ELSE Append(docs, doc)

\* _merge_splits: current_doc.append(d) and the new total
AppendSplit(docs, popped, d, seplen) ==
  [docs |-> docs,
   current_doc |-> Append(popped.current_doc, d),
   total |-> popped.total + Len(d)
               + (IF Len(popped.current_doc) > 0 THEN seplen ELSE 0)]

\* a _split_text that hands the pieces that are too long all the
\* separators it was given
ChosenSeparator_NoAdvance(separators, first) ==
  [separator |-> IF first = 0 THEN separators[Len(separators)]
                 ELSE separators[first],
   new_separators |-> separators]

\* a merge that closes the current chunk one character early
MergeStep_OffByOne(st, d, separator, chunk_size, chunk_overlap) ==
  IF /\ st.total + Len(d)
          + (IF Len(st.current_doc) > 0 THEN Len(separator) ELSE 0) >= chunk_size
     /\ Len(st.current_doc) > 0
    THEN AppendSplit(AppendDoc(st.docs, JoinDocs(st.current_doc, separator)),
                     PopFront(st.current_doc, st.total, Len(d), Len(separator),
                              chunk_size, chunk_overlap),
                     d, Len(separator))
    ELSE AppendSplit(st.docs, st, d, Len(separator))

\* _merge_splits: one iteration of the loop over the splits
MergeStep(st, d, separator, chunk_size, chunk_overlap) ==
  IF /\ st.total + Len(d)
          + (IF Len(st.current_doc) > 0 THEN Len(separator) ELSE 0) > chunk_size
     /\ Len(st.current_doc) > 0
    THEN AppendSplit(AppendDoc(st.docs, JoinDocs(st.current_doc, separator)),
                     PopFront(st.current_doc, st.total, Len(d), Len(separator),
                              chunk_size, chunk_overlap),
                     d, Len(separator))
    ELSE AppendSplit(st.docs, st, d, Len(separator))

\* _merge_splits: the last document, after the loop
MergeEnd(st, separator) ==
  AppendDoc(st.docs, JoinDocs(st.current_doc, separator))

\* TextSplitter._merge_splits
MergeSplits(splits, separator, chunk_size, chunk_overlap) ==
  LET F[i \in 0..Len(splits)] ==
        IF i = 0 THEN [docs |-> <<>>, current_doc |-> <<>>, total |-> 0]
        ELSE MergeStep(F[i-1], splits[i], separator, chunk_size, chunk_overlap)
  IN MergeEnd(F[Len(splits)], separator)

\* _split_text: merge the pieces collected so far (keep_separator=True:
\* they are joined with the empty separator)
MergeGood(good, chunk_size, chunk_overlap) ==
  IF good = <<>> THEN <<>>
  ELSE MergeSplits(good, <<>>, chunk_size, chunk_overlap)

\* _split_text: the index of the first separator that is empty or occurs in
\* the text, 0 if there is none
FirstUsable(text, separators) ==
  LET first == MinOrNone({i \in 1..Len(separators) :
                 separators[i] = <<>> \/ Find(text, separators[i], 0) # -1})
  IN IF first = -1 THEN 0 ELSE first

\* _split_text: the separator chosen and the separators left for the pieces
\* that are still too long
ChosenSeparator(separators, first) ==
  [separator |-> IF first = 0 THEN separators[Len(separators)]
                 ELSE separators[first],
   new_separators |-> IF first = 0 \/ separators[first] = <<>> THEN <<>>
                      ELSE SubSeq(separators, first + 1, Len(separators))]

RECURSIVE SplitText(_, _, _, _)
\* _split_text: one iteration of the loop over the splits
SplitStep(st, s, new_separators, chunk_size, chunk_overlap) ==
  IF Len(s) < chunk_size
    THEN [final |-> st.final, good |-> Append(st.good, s)]
    ELSE [final |-> st.final \o MergeGood(st.good, chunk_size, chunk_overlap)
                      \o (IF new_separators = <<>> THEN <<s>>
                          ELSE SplitText(s, new_separators,
                                         chunk_size, chunk_overlap)),
          good |-> <<>>]

\* _split_text: the loop over the splits and the final merge
SplitLoop(splits, new_separators, chunk_size, chunk_overlap) ==
  LET F[i \in 0..Len(splits)] ==
        IF i = 0 THEN [final |-> <<>>, good |-> <<>>]
        ELSE SplitStep(F[i-1], splits[i], new_separators,
                       chunk_size, chunk_overlap)
      End(st) == st.final \o MergeGood(st.good, chunk_size, chunk_overlap)
  IN End(F[Len(splits)])

\* _split_text with the separator chosen
SplitBy(text, chosen, chunk_size, chunk_overlap) ==
  SplitLoop(SplitTextWithRegex(text, chosen.separator), chosen.new_separators,
            chunk_size, chunk_overlap)

\* RecursiveCharacterTextSplitter._split_text
SplitText(text, separators, chunk_size, chunk_overlap) ==
  SplitBy(text, ChosenSeparator(separators, FirstUsable(text, separators)),
          chunk_size, chunk_overlap)

\* a splitter built without add_start_index: the chunk has no start_index
TagChunk_NoStartIndex(st, doc, text, index) ==
  [chunks |-> Append(st.chunks,
                     [page_content |-> text, source |-> doc.source]),
   index |-> index,
   previous_chunk_len |-> Len(text)]

\* create_documents: the chunk for one text, found at `index`
TagChunk(st, doc, text, index) ==
  [chunks |-> Append(st.chunks,
                     [page_content |-> text, source |-> doc.source,
                      start_index |-> index]),
   index |-> index,
   previous_chunk_len |-> Len(text)]

\* create_documents: max(0, offset)
AtLeastZero(offset) == IF offset > 0 THEN offset ELSE 0

\* create_documents with add_start_index=True over the texts of one
\* document: each chunk keeps the document's metadata and gets start_index
TagChunks(doc, texts, chunk_overlap) ==
  LET F[i \in 0..Len(texts)] ==
        IF i = 0 THEN [chunks |-> <<>>, index |-> 0, previous_chunk_len |-> 0]
        ELSE TagChunk(F[i-1], doc, texts[i],
                      Find(doc.page_content, texts[i],
                           AtLeastZero(F[i-1].index + F[i-1].previous_chunk_len
                                       - chunk_overlap)))
      Chunks(st) == st.chunks
  IN Chunks(F[Len(texts)])

\* TextSplitter.split_documents for one document
SplitDocument(doc, separators, chunk_size, chunk_overlap) ==
  TagChunks(doc,
            SplitText(doc.page_content, separators, chunk_size, chunk_overlap),
            chunk_overlap)

\* a split_documents that returns each document whole
split_documents_NoSplit(documents, tp) ==
  [i \in 1..Len(documents) |->
     [page_content |-> documents[i].page_content,
      source |-> documents[i].source, start_index |-> 0]]

\* TextProcessor.split_documents
split_documents(documents, tp) ==
  Concat([i \in 1..Len(documents) |->
            SplitDocument(documents[i], tp.separators,
                          tp.chunk_size, tp.chunk_overlap)])

\* TextProcessor.__init__: the configuration resolved from the arguments
\* and the settings, and the error RecursiveCharacterTextSplitter raises
\* for a malformed one
TextProcessorInit(chunk_size, chunk_overlap) ==
  LET size == IF Falsy(chunk_size) THEN SettingsChunkSize ELSE chunk_size
      overlap == IF Falsy(chunk_overlap) THEN SettingsChunkOverlap
                 ELSE chunk_overlap
  IN IF size <= 0 \/ overlap < 0 \/ overlap > size THEN Raise("ValueError")
     ELSE Ok([chunk_size |-> size, chunk_overlap |-> overlap,
              separators |-> DefaultSeparators])

\* -------------------------------------------------------------- the state
VARIABLES
  ctor,            \* the arguments RAGPipeline was constructed with
  constructed,     \* did RAGPipeline.__init__ return (FALSE: it raised)
  text_processor,  \* self.text_processor: its resolved configuration
  is_initialized,  \* self._is_initialized
  retriever,       \* self.retriever (bound = FALSE models None)
  vectorstore,     \* self.vector_store.vectorstore: 0 models None, n > 0
                   \* the identity of a Chroma object
  persist_exists,  \* self.vector_store.persist_directory.exists()
  records,         \* the records of the persisted collection, in order
  chat,            \* "loop" while interactive_chat is running, else "idle"
  stdin_eof,       \* the input stream has ended: every read raises EOFError
  succeeded,       \* history: some ingest_documents / load_existing_index
                   \* call has returned normally
  last,            \* what the most recent operation did
  source_documents,\* the documents a TextProcessor used on its own is given
  processor,       \* a TextProcessor constructed on its own: the error its
                   \* constructor raised, or its configuration
  call,            \* the last call made on a component used on its own
  process,         \* the last run of the command line: its command, whether
                   \* it is still running, and the code it exited with
  frames           \* the _split_text calls of a running split_documents
                   \* that are still to be made, the next one first

vars == <<ctor, constructed, text_processor, is_initialized, retriever,
          vectorstore, persist_exists, records, chat, stdin_eof,
          succeeded, last, source_documents, processor, call, process,
          frames>>

\* self.retriever = None
NoRetriever == [bound |-> FALSE, search_type |-> None, top_k |-> NoneInt]
NoSources == [some |-> FALSE, docs |-> <<>>]
NoResult == [answer |-> None, sources |-> NoSources]

\* the record of an operation: its name, the exception it raised ("none" if
\* it returned), the collaborator calls it made in order, the result count
\* and the Chroma object of the index search it made (NoneInt / 0 if none),
\* the chunks the search returned, the chunks handed to create_from_documents,
\* whether ingest_documents was given a file_path or a directory,
\* the value it returned, what the language-model call gave (its text, or
\* the exception it raised), and for a turn of interactive_chat the line
\* read and the exception the loop caught
Outcome(op, error, calls) ==
  [op |-> op, error |-> error, calls |-> calls, force_recreate |-> FALSE,
   return_sources |-> FALSE,
   k_arg |-> NoneInt, search_k |-> NoneInt, search_handle |-> 0,
   retrieved |-> <<>>, chunks |-> <<>>, llm_answer |-> None,
   llm_response |-> None, source_given |-> FALSE,
   result |-> NoResult, line |-> <<>>, caught |-> "none"]

\* the configuration of no TextProcessor
NoConfig == [chunk_size |-> 0, chunk_overlap |-> 0, separators |-> <<>>]

\* no TextProcessor constructed yet; the one a constructor call leaves
Unbuilt == [error |-> "unbuilt", config |-> NoConfig]
Built(tp) ==
  [error |-> tp.error,
   config |-> IF tp.error = "none" THEN tp.value ELSE NoConfig]

\* the record of a call on a component: its name, its arguments, the
\* exception it raised ("none" if it returned) and the documents it returned
Call(op, args, error, documents) ==
  [op |-> op, args |-> args, error |-> error, documents |-> documents]
NoCall == Call("none", <<>>, "none", <<>>)

\* a run of main: the OPENAI_API_KEY it found, its command, whether main
\* itself refused the arguments, the exception that reached main's handlers
\* ("none" if none did) and its exit code (NoneInt while it runs)
Process(api_key, command, usage, raised, exit_code) ==
  [api_key |-> api_key, command |-> command, usage |-> usage,
   raised |-> raised, exit_code |-> exit_code]
NoProcess == Process("", "none", FALSE, "none", NoneInt)

\* ------------------------------------------------------------- VectorStore
\* the store as the operations below see it
Store(vs, ex, recs) ==
  [vectorstore |-> vs, persist_exists |-> ex, records |-> recs]

\* the identity of a newly created Chroma object: not the one it replaces
NewHandle(vs) == (vs % MaxHandles) + 1

\* create_from_documents over an in-memory collection: nothing is persisted
create_from_documents_NoPersist(store, documents, mkdirOk, embedOk) ==
  IF ~mkdirOk THEN [error |-> "PermissionError", store |-> store]
  ELSE IF ~embedOk THEN [error |-> "EmbeddingError", store |-> store]
  ELSE [error |-> "none",
        store |-> [store EXCEPT !.vectorstore = NewHandle(store.vectorstore)]]

\* VectorStore.create_from_documents.  Chroma.from_documents opens (and so
\* creates) the persist directory, embeds the documents and adds one record
\* per document to the collection found there.
create_from_documents(store, documents, mkdirOk, embedOk) ==
  IF ~mkdirOk THEN [error |-> "PermissionError", store |-> store]
  ELSE IF ~embedOk
    THEN [error |-> "EmbeddingError",
          store |-> [store EXCEPT !.persist_exists = TRUE]]
  ELSE [error |-> "none",
        store |-> [vectorstore |-> NewHandle(store.vectorstore),
                   persist_exists |-> TRUE,
                   records |-> store.records \o documents]]

\* load_existing that opens nothing: the handle is left as it was
load_existing_NoHandle(store) ==
  IF ~store.persist_exists
    THEN [error |-> "FileNotFoundError", store |-> store]
  ELSE [error |-> "none", store |-> store]

\* VectorStore.load_existing
load_existing(store) ==
  IF ~store.persist_exists
    THEN [error |-> "FileNotFoundError", store |-> store]
  ELSE [error |-> "none",
        store |-> [store EXCEPT !.vectorstore = NewHandle(store.vectorstore)]]

\* ------------------------------------------------------- DocumentRetriever
\* DocumentRetriever.__init__
DocumentRetriever(search_type, top_k) ==
  [bound |-> TRUE,
   search_type |-> IF search_type = None THEN SettingsSearchType ELSE search_type,
   top_k |-> IF Falsy(top_k) THEN SettingsTopK ELSE top_k]

\* the retriever RAGPipeline builds after a load or a create
PipelineRetriever(retrieval_top_k) == DocumentRetriever(None, NoneInt)

\* the result count DocumentRetriever.retrieve searches with:
\* get_retriever passes search_kwargs = {"k": self.top_k}
RetrieveK(k, top_k) == top_k

\* the ranking of the records for a question (the embedding distance is the
\* embedding service's): stored order for one question, reverse for another
Question == {<<"q", "1">>, <<"q", "2">>}
Rank(question, recs) ==
  IF question = <<"q", "1">> THEN recs
  ELSE [i \in 1..Len(recs) |-> recs[Len(recs) + 1 - i]]

\* Chroma similarity search: the k best-ranked records
SimilaritySearch(question, k, recs) ==
  SubSeq(Rank(question, recs), 1, IF k < Len(recs) THEN k ELSE Len(recs))

\* a retriever that keeps searching the Chroma object that was there
\* before the last one was installed
Invoke_Stale(store, question, search_k, searchOk) ==
  [error |-> IF searchOk THEN "none" ELSE "RetrievalError",
   calls |-> <<"get_retriever", "as_retriever", "invoke">>,
   search_k |-> search_k,
   search_handle |-> IF store.vectorstore > 1 THEN store.vectorstore - 1
                     ELSE store.vectorstore,
   documents |-> IF searchOk
                   THEN SimilaritySearch(question, search_k, store.records)
                   ELSE <<>>]

\* get_retriever().invoke(query): the search with result count search_k on
\* the store's Chroma object
Invoke(store, question, search_k, searchOk) ==
  [error |-> IF searchOk THEN "none" ELSE "RetrievalError",
   calls |-> <<"get_retriever", "as_retriever", "invoke">>,
   search_k |-> search_k,
   search_handle |-> store.vectorstore,
   documents |-> IF searchOk
                   THEN SimilaritySearch(question, search_k, store.records)
                   ELSE <<>>]

\* VectorStore.similarity_search: the result count is k, the settings'
\* default when k is None
similarity_search(store, question, k, searchOk) ==
  IF store.vectorstore = 0
    THEN [error |-> "RuntimeError", calls |-> <<>>,
          search_k |-> NoneInt, search_handle |-> 0, documents |-> <<>>]
    ELSE [Invoke(store, question, IF k = NoneInt THEN SettingsTopK ELSE k,
                 searchOk)
            EXCEPT !.calls = <<"vectorstore.similarity_search">>]

\* a retrieve that asks the store for a retriever without testing its handle
retrieve_NoCheck(retr, store, question, k, searchOk) ==
  Invoke(store, question, RetrieveK(k, retr.top_k), searchOk)

\* DocumentRetriever.retrieve / get_retriever
retrieve(retr, store, question, k, searchOk) ==
  IF store.vectorstore = 0
    THEN [error |-> "RuntimeError", calls |-> <<"get_retriever">>,
          search_k |-> NoneInt, search_handle |-> 0, documents |-> <<>>]
    ELSE Invoke(store, question, RetrieveK(k, retr.top_k), searchOk)

\* ------------------------------------------------------- ResponseGenerator
Answer == {"ans1", "ans2"}

\* what self.llm.invoke gives: the text of the response, or the exception
\* the service raised
Response(llmOk, answer) == IF llmOk THEN answer ELSE "GenerationError"

\* a generate that returns no sources
generate_NoSources(context_documents, llmOk, answer) ==
  IF ~llmOk THEN [error |-> "GenerationError", calls |-> <<"llm.invoke">>,
                  answer |-> None, sources |-> <<>>]
  ELSE [error |-> "none", calls |-> <<"llm.invoke">>,
        answer |-> answer, sources |-> <<>>]

\* a generate that calls the model a second time when the first call fails
generate_Retry(context_documents, llmOk, answer) ==
  IF ~llmOk THEN [error |-> "GenerationError",
                  calls |-> <<"llm.invoke", "llm.invoke">>,
                  answer |-> None, sources |-> <<>>]
  ELSE [error |-> "none", calls |-> <<"llm.invoke">>,
        answer |-> answer, sources |-> context_documents]

\* ResponseGenerator.generate: one llm.invoke; its text and the context
generate(context_documents, llmOk, answer) ==
  IF ~llmOk THEN [error |-> "GenerationError", calls |-> <<"llm.invoke">>,
                  answer |-> None, sources |-> <<>>]
  ELSE [error |-> "none", calls |-> <<"llm.invoke">>,
        answer |-> answer, sources |-> context_documents]

\* ------------------------------------------------------------- RAGPipeline
\* the pipeline object and the disk state its operations read
Self ==
  [is_initialized |-> is_initialized, retriever |-> retriever,
   store |-> Store(vectorstore, persist_exists, records),
   text_processor |-> text_processor,
   retrieval_top_k |-> ctor.retrieval_top_k]

\* the state an operation leaves and its record
Post(self, init, retr, store, outcome) ==
  [is_initialized |-> init, retriever |-> retr, store |-> store,
   last |-> outcome]

\* an operation that drops the ready flag when it raises
Unchanged_ResetOnError(self, outcome) ==
  Post(self, self.is_initialized /\ outcome.error = "none", self.retriever,
       self.store, outcome)

\* an operation that raised before changing anything
Unchanged(self, outcome) ==
  Post(self, self.is_initialized, self.retriever, self.store, outcome)

\* a reuse test that never reuses
UseExisting_Never(force_recreate, exists) == FALSE

\* ingest_documents: the test that selects the reuse path
UseExisting(force_recreate, exists) == ~force_recreate /\ exists

\* the record of an ingest_documents call
IngestOutcome(error, calls, force_recreate, chunks) ==
  [Outcome("ingest_documents", error, calls)
     EXCEPT !.force_recreate = force_recreate, !.chunks = chunks]

\* a binding that sets the flag before load_existing has returned
BindLoaded_FlagFirst(self, ld, outcome) ==
  IF ld.error # "none"
    THEN Post(self, TRUE, self.retriever, ld.store,
              [outcome EXCEPT !.error = ld.error])
    ELSE Post(self, TRUE, PipelineRetriever(self.retrieval_top_k), ld.store,
              [outcome EXCEPT !.calls = Append(@, "DocumentRetriever")])

\* the assignments after a load_existing: bind a new retriever and set the
\* flag, unless load_existing raised
BindLoaded(self, ld, outcome) ==
  IF ld.error # "none"
    THEN Post(self, self.is_initialized, self.retriever, ld.store,
              [outcome EXCEPT !.error = ld.error])
    ELSE Post(self, TRUE, PipelineRetriever(self.retrieval_top_k), ld.store,
              [outcome EXCEPT !.calls = Append(@, "DocumentRetriever")])

\* RAGPipeline.ingest_documents, reuse path
IngestReuse(self, force_recreate) ==
  BindLoaded(self, load_existing(self.store),
             IngestOutcome("none", <<"load_existing">>, force_recreate, <<>>))

\* the collaborator calls of the build path up to create_from_documents
CreateCalls(mkdirOk) ==
  <<"load_documents", "split_documents", "create_from_documents">>
    \o (IF mkdirOk THEN <<"embed_documents">> ELSE <<>>)

\* ingest_documents after create_from_documents: bind a new retriever and
\* set the flag, unless the create raised
BindCreated(self, cr, chunks, force_recreate, mkdirOk) ==
  IF cr.error # "none"
    THEN Post(self, self.is_initialized, self.retriever, cr.store,
              IngestOutcome(cr.error, CreateCalls(mkdirOk), force_recreate,
                            chunks))
    ELSE Post(self, TRUE, PipelineRetriever(self.retrieval_top_k), cr.store,
              IngestOutcome("none",
                            Append(CreateCalls(mkdirOk), "DocumentRetriever"),
                            force_recreate, chunks))

\* ingest_documents from the chunks on: create the store, bind
IngestChunks(self, chunks, force_recreate, mkdirOk, embedOk) ==
  BindCreated(self, create_from_documents(self.store, chunks, mkdirOk, embedOk),
              chunks, force_recreate, mkdirOk)

\* an ingest that reports a loader failure as an error of its own
IngestLoaded_Wrapped(self, docs, force_recreate, mkdirOk, embedOk) ==
  IF docs.error # "none"
    THEN Unchanged(self, IngestOutcome("RuntimeError", <<"load_documents">>,
                                       force_recreate, <<>>))
    ELSE IngestChunks(self, split_documents(docs.value, self.text_processor),
                      force_recreate, mkdirOk, embedOk)

\* ingest_documents from the loaded documents on: split, create, bind
IngestLoaded(self, docs, force_recreate, mkdirOk, embedOk) ==
  IF docs.error # "none"
    THEN Unchanged(self, IngestOutcome(docs.error, <<"load_documents">>,
                                       force_recreate, <<>>))
    ELSE IngestChunks(self, split_documents(docs.value, self.text_processor),
                      force_recreate, mkdirOk, embedOk)

\* RAGPipeline.ingest_documents, build path: load, split, create, bind
IngestBuild(self, file_path, directory, file_types, force_recreate, recursive, mkdirOk, embedOk) ==
  IngestLoaded(self, load_documents(file_path, directory, file_types, recursive),
               force_recreate, mkdirOk, embedOk)

\* RAGPipeline.ingest_documents
ingest_documents(self, file_path, directory, file_types, force_recreate, recursive, mkdirOk, embedOk) ==
  IF UseExisting(force_recreate, self.store.persist_exists)
    THEN IngestReuse(self, force_recreate)
    ELSE IngestBuild(self, file_path, directory, file_types, force_recreate,
                     recursive, mkdirOk, embedOk)

\* load_existing_index that opens the store without checking it is there
load_existing_index_NoCheck(self) ==
  Post(self, TRUE, PipelineRetriever(self.retrieval_top_k),
       [self.store EXCEPT !.vectorstore = NewHandle(self.store.vectorstore)],
       Outcome("load_existing_index", "none",
               <<"load_existing", "DocumentRetriever">>))

\* RAGPipeline.load_existing_index
load_existing_index(self) ==
  BindLoaded(self, load_existing(self.store),
             Outcome("load_existing_index", "none", <<"load_existing">>))

\* a query that returns the sources whether asked to or not
QueryResult_AlwaysSources(answer, sources, return_sources) ==
  [answer |-> answer, sources |-> [some |-> TRUE, docs |-> sources]]

\* RAGPipeline.query: the value returned
QueryResult(answer, sources, return_sources) ==
  [answer |-> answer,
   sources |-> IF return_sources THEN [some |-> TRUE, docs |-> sources]
               ELSE NoSources]

\* a query without the guard
QueryAllowed_Always(init) == TRUE

\* RAGPipeline.query: the guard on self._is_initialized
QueryAllowed(init) == init

\* the record of a query that got as far as the index search
Searched(rt, return_sources) ==
  [Outcome("query", rt.error, <<"retrieve">> \o rt.calls)
     EXCEPT !.return_sources = return_sources,
            !.search_k = rt.search_k,
            !.search_handle = rt.search_handle,
            !.retrieved = rt.documents]

\* query after generate: the answer and the sources, or generate's error
QueryGenerated(self, searched, gen, return_sources) ==
  IF gen.error # "none"
    THEN Unchanged(self,
           [searched EXCEPT !.error = gen.error,
                            !.calls = @ \o <<"generate">> \o gen.calls])
    ELSE Unchanged(self,
           [searched EXCEPT !.calls = @ \o <<"generate">> \o gen.calls,
                            !.llm_answer = gen.answer,
                            !.result = QueryResult(gen.answer, gen.sources,
                                                   return_sources)])

\* query after retrieve: generate from the retrieved chunks, or the
\* retriever's error
QueryRetrieved(self, rt, return_sources, llmOk, answer) ==
  IF rt.error # "none" THEN Unchanged(self, Searched(rt, return_sources))
  ELSE QueryGenerated(self,
                      [Searched(rt, return_sources)
                         EXCEPT !.llm_response = Response(llmOk, answer)],
                      generate(rt.documents, llmOk, answer), return_sources)

\* RAGPipeline.query
query(self, question, return_sources, searchOk, llmOk, answer) ==
  IF ~QueryAllowed(self.is_initialized)
    THEN Unchanged(self, Outcome("query", "RuntimeError", <<>>))
  ELSE IF ~self.retriever.bound
    THEN Unchanged(self, Outcome("query", "AttributeError", <<>>))
  ELSE QueryRetrieved(self,
         retrieve(self.retriever, self.store, question, NoneInt, searchOk),
         return_sources, llmOk, answer)

\* the record of a direct retrieve call
Retrieved(rt, k) ==
  [Outcome("retrieve", rt.error, rt.calls)
     EXCEPT !.k_arg = k, !.search_k = rt.search_k,
            !.search_handle = rt.search_handle,
            !.retrieved = rt.documents,
            !.result = [answer |-> None,
                        sources |-> [some |-> rt.error = "none",
                                     docs |-> rt.documents]]]

\* a direct call of pipeline.retriever.retrieve(question, k)
retriever_retrieve(self, question, k, searchOk) ==
  Unchanged(self,
    Retrieved(retrieve(self.retriever, self.store, question, k, searchOk), k))

\* the record of a direct generate call: the context it was given, what
\* the model call gave and what generate returned
Generated(gen, context_documents, response) ==
  [Outcome("generate", gen.error, gen.calls)
     EXCEPT !.retrieved = context_documents,
            !.llm_response = response,
            !.llm_answer = gen.answer,
            !.result = [answer |-> gen.answer,
                        sources |-> [some |-> gen.error = "none",
                                     docs |-> gen.sources]]]

\* a direct call of pipeline.generator.generate(question, context_documents)
generator_generate(self, context_documents, llmOk, answer) ==
  Unchanged(self,
    Generated(generate(context_documents, llmOk, answer), context_documents,
              Response(llmOk, answer)))

\* a direct call of DocumentRetriever(pipeline.vector_store, top_k=top_k)
\* .retrieve(question, k)
new_retriever_retrieve(self, top_k, question, k, searchOk) ==
  Unchanged(self,
    [Retrieved(retrieve(DocumentRetriever(None, top_k), self.store, question,
                        k, searchOk), k)
       EXCEPT !.op = "new_retriever.retrieve"])

\* a direct call of pipeline.vector_store.similarity_search(question, k)
store_similarity_search(self, question, k, searchOk) ==
  Unchanged(self,
    [Retrieved(similarity_search(self.store, question, k, searchOk), k)
       EXCEPT !.op = "similarity_search"])

\* ------------------------------------------------------------ construction
\* RAGPipeline.__init__: the error it raises, or the components it builds
RAGPipelineInit(openai_api_key, chunk_size, chunk_overlap) ==
  IF openai_api_key = "" THEN Raise("ValueError")
  ELSE TextProcessorInit(chunk_size, chunk_overlap)

\* the arguments a pipeline is constructed with
Ctor(key, size, overlap, top_k) ==
  [openai_api_key |-> key, chunk_size |-> size, chunk_overlap |-> overlap,
   retrieval_top_k |-> top_k]
CtorArg ==
  {Ctor("sk-test", NoneInt, NoneInt, NoneInt),
   Ctor("sk-test", NoneInt, NoneInt, 1),
   Ctor("sk-test", 4, 1, NoneInt),
   Ctor("sk-test", NoneInt, 0, NoneInt),
   Ctor("sk-test", NoneInt, 1, NoneInt),
   Ctor("sk-test", 4, 0, NoneInt),
   Ctor("sk-test", 4, NoneInt, NoneInt),
   Ctor("", NoneInt, NoneInt, NoneInt)}

\* a record of a previous run's index, present if the directory pre-exists
OldChunk == [page_content |-> <<"o", "l", "d">>, source |-> "old.txt",
             start_index |-> 0]

Init ==
  /\ ctor \in CtorArg
  /\ LET built == RAGPipelineInit(ctor.openai_api_key, ctor.chunk_size,
                                  ctor.chunk_overlap)
     IN /\ constructed = (built.error = "none")
        /\ text_processor =
             IF built.error = "none" THEN built.value
             ELSE NoConfig
  /\ is_initialized = FALSE
  /\ retriever = NoRetriever
  /\ vectorstore = 0
  /\ persist_exists \in BOOLEAN
  /\ records = (IF persist_exists THEN <<OldChunk>> ELSE <<>>)
  /\ chat = "idle"
  /\ stdin_eof = FALSE
  /\ succeeded = FALSE
  /\ last = Outcome("none", "none", <<>>)
  /\ source_documents = <<>>
  /\ processor = Unbuilt
  /\ call = NoCall
  /\ process = NoProcess
  /\ frames = <<>>

\* an operation leaves the state `post`
Becomes(post) ==
  /\ is_initialized' = post.is_initialized
  /\ retriever' = post.retriever
  /\ vectorstore' = post.store.vectorstore
  /\ persist_exists' = post.store.persist_exists
  /\ records' = post.store.records
  /\ last' = post.last
  /\ succeeded' = (succeeded \/ (post.last.error = "none"
                     /\ post.last.op \in {"ingest_documents",
                                          "load_existing_index"}))
  /\ Len(records') <= MaxRecords
  /\ UNCHANGED <<ctor, constructed, text_processor>>
  /\ UNCHANGED <<source_documents, processor, call, frames>>

\* the sources ingest_documents is called with
Source(file_path, directory, file_types, recursive) ==
  [file_path |-> file_path, directory |-> directory,
   file_types |-> file_types, recursive |-> recursive]
SourceArg ==
  {Source(None, None, NoFileTypes, TRUE),
   Source("a.txt", None, NoFileTypes, TRUE),
   Source("b.md", "docs", NoFileTypes, TRUE),
   Source("missing.txt", None, NoFileTypes, TRUE),
   Source("notes.csv", None, NoFileTypes, TRUE),
   Source("bad.pdf", None, NoFileTypes, TRUE),
   Source(None, "docs", NoFileTypes, TRUE),
   Source(None, "docs", {"txt"}, FALSE),
   Source(None, "docs", {".md", "csv"}, TRUE),
   Source(None, "empty", NoFileTypes, TRUE),
   Source(None, "broken", NoFileTypes, TRUE),
   Source(None, "nodir", NoFileTypes, TRUE),
   Source(None, "a.txt", NoFileTypes, TRUE)}

\* what the file system and the embedding service do during a create: the
\* directory cannot be made, the embedding call fails, or both succeed
CreateEnv ==
  {[mkdirOk |-> FALSE, embedOk |-> TRUE], [mkdirOk |-> TRUE, embedOk |-> FALSE],
   [mkdirOk |-> TRUE, embedOk |-> TRUE]}

\* what the index search and the language model do during a query: the
\* search fails, the model call fails, or the model gives an answer
QueryEnv ==
  {[searchOk |-> FALSE, llmOk |-> TRUE, answer |-> "ans1"],
   [searchOk |-> TRUE, llmOk |-> FALSE, answer |-> "ans1"]}
  \cup {[searchOk |-> TRUE, llmOk |-> TRUE, answer |-> a] : a \in Answer}

\* the outcome of an ingest_documents call, with the arguments it was given
CalledWith(post, src) ==
  [post EXCEPT !.last.source_given =
                 (src.file_path # None \/ src.directory # None)]

IngestDocuments ==
  /\ constructed /\ chat = "idle"
  /\ UNCHANGED process
  /\ \E src \in SourceArg, force_recreate \in BOOLEAN, env \in CreateEnv :
       Becomes(CalledWith(ingest_documents(Self, src.file_path, src.directory,
                                           src.file_types, force_recreate,
                                           src.recursive, env.mkdirOk,
                                           env.embedOk), src))
  /\ UNCHANGED <<chat, stdin_eof>>

LoadExistingIndex ==
  /\ constructed /\ chat = "idle"
  /\ UNCHANGED process
  /\ UNCHANGED <<chat, stdin_eof>>
  /\ Becomes(load_existing_index(Self))

Query ==
  /\ constructed /\ chat = "idle"
  /\ UNCHANGED process
  /\ \E question \in Question, return_sources \in BOOLEAN, env \in QueryEnv :
       Becomes(query(Self, question, return_sources, env.searchOk, env.llmOk,
                     env.answer))
  /\ UNCHANGED <<chat, stdin_eof>>

KArg == {NoneInt, 0, 1}

RetrieverRetrieve ==
  /\ constructed /\ chat = "idle"
  /\ UNCHANGED process
  /\ retriever.bound
  /\ \E question \in Question, k \in KArg, searchOk \in BOOLEAN :
       Becomes(retriever_retrieve(Self, question, k, searchOk))
  /\ UNCHANGED <<chat, stdin_eof>>

\* the context lists generate is called with
NewChunk == [page_content |-> <<"n", "e", "w">>, source |-> "new.txt",
             start_index |-> 2]
ContextArg == {<<>>, <<OldChunk>>, <<OldChunk, NewChunk>>, <<NewChunk, OldChunk>>}

\* what the language model does during a generate: the call fails, or the
\* model gives an answer
GenerateEnv ==
  {[llmOk |-> FALSE, answer |-> "ans1"]}
  \cup {[llmOk |-> TRUE, answer |-> a] : a \in Answer}

GeneratorGenerate ==
  /\ constructed /\ chat = "idle"
  /\ UNCHANGED process
  /\ \E context_documents \in ContextArg, env \in GenerateEnv :
       Becomes(generator_generate(Self, context_documents, env.llmOk,
                                  env.answer))
  /\ UNCHANGED <<chat, stdin_eof>>

\* the top_k a retriever is constructed with, the k a search is called with
TopKArg == {NoneInt, 1}
SearchKArg == {NoneInt, 1}

NewRetrieverRetrieve ==
  /\ constructed /\ chat = "idle"
  /\ UNCHANGED process
  /\ \E top_k \in TopKArg, question \in Question, k \in KArg,
        searchOk \in BOOLEAN :
       Becomes(new_retriever_retrieve(Self, top_k, question, k, searchOk))
  /\ UNCHANGED <<chat, stdin_eof>>

StoreSimilaritySearch ==
  /\ constructed /\ chat = "idle"
  /\ UNCHANGED process
  /\ \E question \in Question, k \in SearchKArg, searchOk \in BOOLEAN :
       Becomes(store_similarity_search(Self, question, k, searchOk))
  /\ UNCHANGED <<chat, stdin_eof>>

\* --------------------------------------------------------- interactive_chat
\* str.lower() on the characters the input lines use
Lower(text) ==
  [i \in 1..Len(text) |->
     CASE text[i] = "Q" -> "q" [] text[i] = "U" -> "u" [] text[i] = "I" -> "i"
       [] text[i] = "T" -> "t" [] text[i] = "E" -> "e" [] text[i] = "X" -> "x"
       [] text[i] = "S" -> "s" [] text[i] = "O" -> "o" [] text[i] = "P" -> "p"
       [] OTHER -> text[i]]

\* a loop that ends on quit alone
TerminationInputs_QuitOnly == {<<"q", "u", "i", "t">>}

\* the inputs that end the session
TerminationInputs ==
  {<<"q", "u", "i", "t">>, <<"e", "x", "i", "t">>, <<"s", "t", "o", "p">>}

\* what one read of the input stream gives: a line, the end of the stream
\* (EOFError) or an interrupt (KeyboardInterrupt)
ChatLine ==
  {<<"q", "1">>, <<" ", "q", "2", " ">>, <<>>, <<" ", " ">>,
   <<"q", "u", "i", "t">>, <<" ", "E", "x", "i", "t">>, <<"S", "T", "O", "P", " ">>,
   <<"q", "u", "i", "t", "s">>}
ReadEvent ==
  {[event |-> "EOFError", line |-> <<>>],
   [event |-> "KeyboardInterrupt", line |-> <<>>]}
  \cup {[event |-> "line", line |-> l] : l \in ChatLine}

\* the loop goes on (running) or ends, leaving the state `post`
Turn(running, post) == [running |-> running, post |-> post]

\* interactive_chat up to its loop: the guard on self._is_initialized
chat_start(self) ==
  Turn(self.is_initialized,
       Unchanged(self, Outcome("interactive_chat",
                               IF self.is_initialized THEN "none"
                               ELSE "RuntimeError", <<>>)))

\* the record of a turn that only read its input
TurnRead(line, caught) ==
  [Outcome("chat_turn", "none", <<"input">>)
     EXCEPT !.line = line, !.caught = caught]

\* a turn with no handler around query: query's error leaves the loop
TurnQueried_Raises(q, line) ==
  Post(q, q.is_initialized, q.retriever, q.store,
       [q.last EXCEPT !.op = "chat_turn", !.line = line,
                      !.calls = <<"input", "query">> \o @])

\* the record of a turn that called query: the loop catches query's error
TurnQueried(q, line) ==
  Post(q, q.is_initialized, q.retriever, q.store,
       [q.last EXCEPT !.op = "chat_turn", !.line = line,
                      !.calls = <<"input", "query">> \o @,
                      !.error = "none", !.caught = q.last.error])

\* the loop body once a line has been read and stripped
chat_line(self, line, user_input, searchOk, llmOk, answer) ==
  IF Lower(user_input) \in TerminationInputs
    THEN Turn(FALSE, Unchanged(self, TurnRead(line, "none")))
  ELSE IF user_input = <<>>
    THEN Turn(TRUE, Unchanged(self, TurnRead(line, "none")))
  ELSE Turn(TRUE, TurnQueried(query(self, user_input, TRUE, searchOk, llmOk,
                                    answer), line))

\* one iteration of the loop of interactive_chat
chat_turn(self, event, line, searchOk, llmOk, answer) ==
  IF event = "KeyboardInterrupt"
    THEN Turn(FALSE, Unchanged(self, TurnRead(<<>>, "KeyboardInterrupt")))
  ELSE IF event = "EOFError"
    THEN Turn(TRUE, Unchanged(self, TurnRead(<<>>, "EOFError")))
  ELSE chat_line(self, line, Strip(line), searchOk, llmOk, answer)

\* the loop is entered, goes on or ends
ChatBecomes(turn) ==
  /\ chat' = IF turn.running THEN "loop" ELSE "idle"
  /\ Becomes(turn.post)

InteractiveChat ==
  /\ constructed /\ chat = "idle"
  /\ UNCHANGED process
  /\ UNCHANGED stdin_eof
  /\ ChatBecomes(chat_start(Self))

ChatTurn ==
  /\ constructed /\ chat = "loop"
  /\ UNCHANGED process
  /\ \E read \in ReadEvent, env \in QueryEnv :
       /\ stdin_eof => read.event = "EOFError"
       /\ stdin_eof' = (read.event = "EOFError")
       /\ ChatBecomes(chat_turn(Self, read.event, read.line, env.searchOk,
                                env.llmOk, env.answer))

Next ==
  \/ IngestDocuments
  \/ LoadExistingIndex
  \/ Query
  \/ RetrieverRetrieve
  \/ GeneratorGenerate
  \/ NewRetrieverRetrieve
  \/ StoreSimilaritySearch
  \/ InteractiveChat
  \/ ChatTurn

Spec == Init /\ [][Next]_vars

\* a chat session that is running takes its next turn: interactive_chat
\* is the one thread of its process and input() returns or raises
ChatSpec == Spec /\ WF_vars(ChatTurn)

\* ------------------------------------------------- TextProcessor on its own
\* no pipeline has been constructed
NoPipeline ==
  /\ ctor = Ctor("sk-test", NoneInt, NoneInt, NoneInt)
  /\ constructed = FALSE
  /\ text_processor = NoConfig
  /\ is_initialized = FALSE
  /\ retriever = NoRetriever
  /\ vectorstore = 0
  /\ persist_exists = FALSE
  /\ records = <<>>
  /\ chat = "idle"
  /\ stdin_eof = FALSE
  /\ succeeded = FALSE
  /\ last = Outcome("none", "none", <<>>)
  /\ process = NoProcess

pipeline_vars ==
  <<ctor, constructed, text_processor, is_initialized, retriever, vectorstore,
    persist_exists, records, chat, stdin_eof, succeeded, last, process>>

\* the characters of the documents, and the texts of at most n of them
Alphabet == {"a", " ", "\n"}
TextsUpTo(n) == UNION {[1..k -> Alphabet] : k \in 0..n}

\* longer texts: a chapter heading, and the files of the file system
LongTexts ==
  {<<"a", "\n", "\n", "C", "h", "a", "p", "t", "e", "r", " ", "b">>,
   <<"a", "b", " ", "c", "d", "e">>,
   <<"a", "b", "a", "b", "a", "b", "a">>}

\* Document(page_content=text, metadata={"source": source})
NewDocument(text, source) == [page_content |-> text, source |-> source]

\* the lists of documents split_documents is given: one document, none, two
SplitInput ==
  {<<NewDocument(t, "t.txt")>> : t \in TextsUpTo(MaxTextLen) \cup LongTexts}
  \cup {<<>>,
        <<NewDocument(<<"a", " ", "a">>, "t.txt"),
          NewDocument(<<" ", "a", "a", "\n">>, "u.txt")>>}

\* the chunk_size and chunk_overlap a TextProcessor is constructed with
ChunkArg == {NoneInt, 0, -2} \cup (1..MaxChunkSize)

SplitInit ==
  /\ NoPipeline
  /\ source_documents \in SplitInput
  /\ processor = Unbuilt
  /\ call = NoCall
  /\ frames = <<>>

\* processor = TextProcessor(chunk_size, chunk_overlap)
NewTextProcessor ==
  /\ \E chunk_size \in ChunkArg, chunk_overlap \in ChunkArg :
       processor' = Built(TextProcessorInit(chunk_size, chunk_overlap))
  /\ call' = NoCall
  /\ UNCHANGED <<pipeline_vars, source_documents, frames>>

\* processor.split_documents(source_documents)
SplitDocuments ==
  /\ processor.error = "none"
  /\ call' = Call("split_documents", <<>>, "none",
                  split_documents(source_documents, processor.config))
  /\ UNCHANGED <<pipeline_vars, source_documents, processor, frames>>

SplitNext == NewTextProcessor \/ SplitDocuments

SplitSpec == SplitInit /\ [][SplitNext]_vars

\* ------------------------------------ split_documents, one call at a time
\* the separator lists a TextProcessor is constructed with: the default
\* and two custom ones, each ending with ""
SeparatorsArg ==
  {DefaultSeparators,
   << <<" ">>, <<>> >>,
   << <<"a">>, <<"\n">>, <<>> >>}

\* TextProcessor.__init__: self.separators = separators or [the default]
WithSeparators(tp, separators) ==
  [tp EXCEPT !.separators = IF separators = <<>> THEN DefaultSeparators
                            ELSE separators]

\* a call _split_text(text, separators)
Frame(text, separators) == [text |-> text, separators |-> separators]

\* _split_text: the calls it makes on itself, in order: one for each piece
\* that is not shorter than chunk_size, while separators are left
Recursed(text, chosen, chunk_size) ==
  LET long == SelectSeq(SplitTextWithRegex(text, chosen.separator),
                        LAMBDA s : Len(s) >= chunk_size)
  IN IF chosen.new_separators = <<>> THEN <<>>
     ELSE [i \in 1..Len(long) |-> Frame(long[i], chosen.new_separators)]

\* a running split_documents that has made n calls of _split_text
Splitting(n) == Call("_split_text", [calls |-> n], "none", <<>>)

\* split_documents has returned, after n calls of _split_text; the chunks
\* it returns are those of split_documents above and are left out here,
\* where only the calls are followed
Returned(n) == Call("split_documents", [calls |-> n], "none", <<>>)

\* the documents split_documents is followed on
RecurInput ==
  {<<NewDocument(t, "t.txt")>> : t \in TextsUpTo(MaxTextLen - 1) \cup LongTexts}
  \cup {<<>>,
        <<NewDocument(<<"a", " ", "a">>, "t.txt"),
          NewDocument(<<" ", "a", "a", "\n">>, "u.txt")>>}

RecurInit ==
  /\ NoPipeline
  /\ source_documents \in RecurInput
  /\ \E chunk_size \in 1..MaxChunkSize, separators \in SeparatorsArg :
       processor = Built(Ok(WithSeparators(
                     TextProcessorInit(chunk_size, 1).value, separators)))
  /\ call = NoCall
  /\ frames = <<>>

\* processor.split_documents(source_documents) is called: split_text is to
\* be called on the text of each document
SplitDocumentsEnter ==
  /\ call = NoCall
  /\ frames' = [i \in 1..Len(source_documents) |->
                  Frame(source_documents[i].page_content,
                        processor.config.separators)]
  /\ call' = Splitting(0)
  /\ UNCHANGED <<pipeline_vars, source_documents, processor>>

\* the next call of _split_text runs: it chooses its separator, splits its
\* text, and the calls it makes on itself come before the ones left
SplitTextStep ==
  /\ call.op = "_split_text" /\ frames # <<>>
  /\ \E frame \in {Head(frames)}, chunk_size \in {processor.config.chunk_size} :
       \E first \in {FirstUsable(frame.text, frame.separators)} :
         \E chosen \in {ChosenSeparator(frame.separators, first)} :
           frames' = Recursed(frame.text, chosen, chunk_size) \o Tail(frames)
  /\ call' = Splitting(call.args.calls + 1)
  /\ UNCHANGED <<pipeline_vars, source_documents, processor>>

\* no call is left: split_documents returns
SplitDocumentsReturn ==
  /\ call.op = "_split_text" /\ frames = <<>>
  /\ call' = Returned(call.args.calls)
  /\ UNCHANGED <<pipeline_vars, source_documents, processor, frames>>

RecurNext == SplitDocumentsEnter \/ SplitTextStep \/ SplitDocumentsReturn

\* a call that can run does run: the interpreter executes the next
\* statement of the one thread there is
RecurSpec ==
  /\ RecurInit /\ [][RecurNext]_vars
  /\ WF_vars(SplitTextStep) /\ WF_vars(SplitDocumentsReturn)

\* ------------------------------------------------ DocumentLoader on its own
\* the directories and the file types load_directory is called with
DirectoryArg == {"docs", "empty", "broken", "nodir"}
FileTypesArg == {NoFileTypes} \cup SUBSET {"txt", ".md", "csv", ".pdf"}

LoadInit ==
  /\ NoPipeline
  /\ source_documents = <<>>
  /\ processor = Unbuilt
  /\ call = NoCall
  /\ frames = <<>>

\* the record of a load_directory call
Loaded(args, loaded) == Call("load_directory", args, loaded.error, loaded.value)

\* DocumentLoader().load_directory(directory, file_types, recursive)
LoadDirectory ==
  /\ \E directory \in DirectoryArg, file_types \in FileTypesArg,
        recursive \in BOOLEAN :
       call' = Loaded([directory |-> directory, file_types |-> file_types,
                       recursive |-> recursive],
                      load_directory(directory, file_types, recursive))
  /\ UNCHANGED <<pipeline_vars, source_documents, processor, frames>>

LoadNext == LoadDirectory

LoadSpec == LoadInit /\ [][LoadNext]_vars

\* ------------------------------------------------------- main, the CLI
\* Each run of main is a new process: it constructs a new RAGPipeline over
\* what the earlier runs left on disk.
Fresh ==
  [is_initialized |-> FALSE, retriever |-> NoRetriever,
   store |-> Store(0, persist_exists, records),
   text_processor |-> text_processor, retrieval_top_k |-> NoneInt]

\* the pipeline as an operation left it
AsSelf(post) ==
  [is_initialized |-> post.is_initialized, retriever |-> post.retriever,
   store |-> post.store, text_processor |-> text_processor,
   retrieval_top_k |-> NoneInt]

\* a main whose only handler is the one for FileNotFoundError
MainExit_OnlyNotFound(raised) == IF raised = "FileNotFoundError" THEN 1 ELSE 0

\* main: both except clauses end in sys.exit(1); a command that returns
\* lets main return, which is exit code 0
MainExit(raised) == IF raised = "none" THEN 0 ELSE 1

\* a run that has ended: sys.exit(1) for a missing key or refused
\* arguments, else the code the try statement gives
Ended(api_key, command, usage, raised) ==
  Process(api_key, command, usage, raised,
          IF api_key = "" \/ usage THEN 1 ELSE MainExit(raised))

\* a run that ran no operation of the pipeline: the disk is as it was, and
\* no pipeline of an earlier run lives on
Untouched == Unchanged(Fresh, Outcome("main", "none", <<>>))

\* the commands of the CLI and the keys found in the environment
Command == {"ingest", "query", "chat"}
ApiKey == {"sk-test"}

\* a run of main leaves the pipeline as `post` and the process as `process`
MainBecomes(run) ==
  /\ Becomes(run.post)
  /\ process' = run.process

\* no OPENAI_API_KEY: exit 1 before the arguments are parsed
MainNoKey ==
  /\ constructed /\ chat = "idle"
  /\ \E command \in Command \cup {"none"} :
       MainBecomes([post |-> Untouched,
                    process |-> Ended("", command, FALSE, "none")])
  /\ UNCHANGED <<chat, stdin_eof>>

\* no command: print the help, exit 1
MainNoCommand ==
  /\ constructed /\ chat = "idle"
  /\ \E api_key \in ApiKey :
       MainBecomes([post |-> Untouched,
                    process |-> Ended(api_key, "none", TRUE, "none")])
  /\ UNCHANGED <<chat, stdin_eof>>

\* main ingest --list-files: list the files, exit 0, or 1 if that raised
main_list_files(api_key, found) == Ended(api_key, "ingest", FALSE, found.error)

\* main ingest: what main does with the arguments
main_ingest(api_key, src, list_only, ingested) ==
  IF src.file_path = None /\ src.directory = None
    THEN [post |-> Untouched, process |-> Ended(api_key, "ingest", TRUE, "none")]
  ELSE IF list_only /\ src.directory = None
    THEN [post |-> Untouched, process |-> Ended(api_key, "ingest", TRUE, "none")]
  ELSE IF list_only
    THEN [post |-> Untouched,
          process |-> main_list_files(api_key,
                        list_files(src.directory, src.file_types, src.recursive))]
  ELSE [post |-> ingested,
        process |-> Ended(api_key, "ingest", FALSE, ingested.last.error)]

MainIngest ==
  /\ constructed /\ chat = "idle"
  /\ \E api_key \in ApiKey, src \in SourceArg, list_only \in BOOLEAN,
        force_recreate \in BOOLEAN, env \in CreateEnv :
       MainBecomes(main_ingest(api_key, src, list_only,
         CalledWith(ingest_documents(Fresh, src.file_path, src.directory,
                                     src.file_types, force_recreate,
                                     src.recursive, env.mkdirOk, env.embedOk),
                    src)))
  /\ UNCHANGED <<chat, stdin_eof>>

\* main query: load_existing_index, then query if that returned
main_query(api_key, loaded, question, return_sources, searchOk, llmOk, answer) ==
  IF loaded.last.error # "none" THEN loaded
  ELSE query(AsSelf(loaded), question, return_sources, searchOk, llmOk, answer)

\* the run of a command that has ended, leaving `post`
Ran(api_key, command, post) ==
  [post |-> post, process |-> Ended(api_key, command, FALSE, post.last.error)]

MainQuery ==
  /\ constructed /\ chat = "idle"
  /\ \E api_key \in ApiKey, question \in Question, return_sources \in BOOLEAN,
        env \in QueryEnv :
       MainBecomes(Ran(api_key, "query",
         main_query(api_key, load_existing_index(Fresh), question,
                    return_sources, env.searchOk, env.llmOk, env.answer)))
  /\ UNCHANGED <<chat, stdin_eof>>

\* main chat: load_existing_index, then interactive_chat if that returned;
\* the run goes on while the loop does
main_chat(api_key, loaded) ==
  IF loaded.last.error # "none"
    THEN [running |-> FALSE, post |-> loaded,
          process |-> Ended(api_key, "chat", FALSE, loaded.last.error)]
    ELSE [running |-> TRUE, post |-> chat_start(AsSelf(loaded)).post,
          process |-> Process(api_key, "chat", FALSE, "none", NoneInt)]

\* the chat run starts its loop, or ends
ChatRunBecomes(run) ==
  /\ chat' = IF run.running THEN "loop" ELSE "idle"
  /\ MainBecomes(run)

MainChat ==
  /\ constructed /\ chat = "idle"
  /\ \E api_key \in ApiKey :
       ChatRunBecomes(main_chat(api_key, load_existing_index(Fresh)))
  /\ stdin_eof' = FALSE

\* the chat run after a turn of the loop: interactive_chat returns when
\* the loop ends, and main with it
main_chat_turn(run, turn) ==
  [running |-> turn.running, post |-> turn.post,
   process |-> IF turn.running THEN run
               ELSE Ended(run.api_key, "chat", FALSE, "none")]

MainChatTurn ==
  /\ constructed /\ chat = "loop"
  /\ \E read \in ReadEvent, env \in QueryEnv :
       /\ stdin_eof => read.event = "EOFError"
       /\ stdin_eof' = (read.event = "EOFError")
       /\ ChatRunBecomes(main_chat_turn(process,
            chat_turn(Self, read.event, read.line, env.searchOk, env.llmOk,
                      env.answer)))

\* the state before the first run: RAGPipeline's defaults, an index on
\* disk or none
MainInit ==
  /\ ctor = Ctor("sk-test", NoneInt, NoneInt, NoneInt)
  /\ constructed = TRUE
  /\ text_processor = TextProcessorInit(NoneInt, NoneInt).value
  /\ is_initialized = FALSE
  /\ retriever = NoRetriever
  /\ vectorstore = 0
  /\ persist_exists \in BOOLEAN
  /\ records = (IF persist_exists THEN <<OldChunk>> ELSE <<>>)
  /\ chat = "idle"
  /\ stdin_eof = FALSE
  /\ succeeded = FALSE
  /\ last = Outcome("none", "none", <<>>)
  /\ source_documents = <<>>
  /\ processor = Unbuilt
  /\ call = NoCall
  /\ process = NoProcess
  /\ frames = <<>>

MainNext ==
  \/ MainNoKey
  \/ MainNoCommand
  \/ MainIngest
  \/ MainQuery
  \/ MainChat
  \/ MainChatTurn

MainSpec == MainInit /\ [][MainNext]_vars

\* ------------------------------------------------------------------ claims
\* the errors a query raises only because a collaborator failed
CollaboratorErrors == {"RetrievalError", "GenerationError"}
ReuseCalls == <<"load_existing", "DocumentRetriever">>

\* C1: a query on an Uninitialized pipeline raises RuntimeError, calls
\* neither the retriever nor the generator and leaves the pipeline
\* Uninitialized, with nothing bound.
C1_QueryUninitializedFails ==
  [][(~is_initialized /\ last'.op = "query")
       => /\ last'.error = "RuntimeError"
          /\ last'.calls = <<>>
          /\ ~is_initialized'
          /\ retriever' = retriever
          /\ vectorstore' = vectorstore
          /\ records' = records]_vars

C1_Witness ==
  /\ last.op = "query" /\ last.error = "RuntimeError"
  /\ ~is_initialized /\ persist_exists

\* C2: once an ingest_documents or load_existing_index has succeeded, a
\* query fails only if its retrieval call or its language-model call fails;
\* otherwise it returns the answer.
C2_QuerySucceedsOnceReady ==
  (succeeded /\ last.op = "query" /\ last.error \notin CollaboratorErrors)
    => /\ last.error = "none"
       /\ last.result.answer \in Answer
       /\ last.result.answer = last.llm_answer

C2_Witness ==
  /\ succeeded /\ last.op = "query" /\ last.error = "none"
  /\ last.result.answer \in Answer

\* C3: a Ready pipeline stays Ready: no step of any operation, failed or
\* not, clears the flag.
C3_ReadyStaysReady == [][is_initialized => is_initialized']_vars

C3_Witness ==
  /\ is_initialized
  /\ last.op = "ingest_documents" /\ last.force_recreate
  /\ last.error = "EmbeddingError"

\* C4: ingest_documents(force_recreate=False) over an existing persisted
\* index calls load_existing only (no loader, chunker or create), makes the
\* pipeline Ready and leaves the persisted index as it was.
C4_IngestReusesExisting ==
  [][(last'.op = "ingest_documents" /\ ~last'.force_recreate /\ persist_exists)
       => /\ last'.error = "none"
          /\ last'.calls = ReuseCalls
          /\ is_initialized'
          /\ retriever'.bound /\ vectorstore' # 0
          /\ records' = records
          /\ persist_exists']_vars

C4_Witness ==
  /\ last.op = "ingest_documents" /\ ~last.force_recreate
  /\ last.error = "none" /\ last.calls = ReuseCalls
  /\ is_initialized /\ records = <<OldChunk>>

\* C5: an ingest_documents(force_recreate=False) that directly follows a
\* successful ingest_documents(force_recreate=False) makes no embedding
\* call, leaves the records unchanged, and the pipeline is Ready after
\* both calls.
C5_IngestIdempotent ==
  [][(/\ last.op = "ingest_documents" /\ ~last.force_recreate
      /\ last.error = "none"
      /\ last'.op = "ingest_documents" /\ ~last'.force_recreate)
       => /\ "embed_documents" \notin Range(last'.calls)
          /\ "create_from_documents" \notin Range(last'.calls)
          /\ records' = records
          /\ is_initialized /\ is_initialized'
          /\ last'.error = "none"]_vars

\* the index was built by this pipeline and the last call reused it
C5_Witness ==
  /\ last.op = "ingest_documents" /\ ~last.force_recreate
  /\ last.error = "none" /\ last.calls = ReuseCalls
  /\ is_initialized
  /\ records # <<>> /\ OldChunk \notin Range(records)

\* C6: a successful ingest_documents(force_recreate=True) over an existing
\* persisted index leaves exactly the records of the newly created chunks.
C6_ForceRecreateDiscardsOld ==
  [][(/\ last'.op = "ingest_documents" /\ last'.force_recreate
      /\ last'.error = "none" /\ persist_exists)
       => records' = last'.chunks]_vars

\* C7: load_existing_index without a persisted index raises
\* FileNotFoundError and leaves the pipeline Uninitialized: no retriever,
\* no index handle, and every query that follows raises RuntimeError.
C7_LoadMissingFails ==
  [][(last'.op = "load_existing_index" /\ ~persist_exists)
       => /\ last'.error = "FileNotFoundError"
          /\ ~is_initialized'
          /\ ~retriever'.bound
          /\ vectorstore' = 0
          /\ ~persist_exists'
          /\ \A question \in Question, return_sources \in BOOLEAN,
                env \in QueryEnv :
               (query(Self, question, return_sources, env.searchOk, env.llmOk,
                      env.answer).last.error = "RuntimeError")']_vars

C7_Witness ==
  /\ last.op = "load_existing_index" /\ last.error = "FileNotFoundError"
  /\ ~is_initialized /\ ~retriever.bound /\ vectorstore = 0

\* C8: a query that succeeds returns the language model's answer, with the
\* retrieved chunks as sources if return_sources is true and None if not.
C8_QueryReturnsAnswerAndSources ==
  (last.op = "query" /\ last.error = "none")
    => /\ last.result.answer = last.llm_answer
       /\ last.result.sources =
            (IF last.return_sources
               THEN [some |-> TRUE, docs |-> last.retrieved]
               ELSE NoSources)

C8_Witness ==
  /\ last.op = "query" /\ last.error = "none"
  /\ ~last.return_sources /\ last.retrieved # <<>>
  /\ last.result.sources = NoSources

\* C9: DocumentRetriever.retrieve(query, k) searches with k when k is
\* given (a positive count) and with the retriever's top_k when it is not.
C9_RetrieveUsesGivenK ==
  (last.op = "retrieve" /\ last.search_k # NoneInt)
    => last.search_k = (IF Falsy(last.k_arg) THEN retriever.top_k
                        ELSE last.k_arg)

\* C10: the retrieval_top_k given to RAGPipeline is the result count of
\* every search its queries make; the settings default only when none is
\* given.
C10_PipelineTopKUsed ==
  (last.op \in {"query", "chat_turn"} /\ last.search_k # NoneInt)
    => last.search_k = (IF ctor.retrieval_top_k = NoneInt THEN SettingsTopK
                        ELSE ctor.retrieval_top_k)

\* C11: a create_from_documents that fails (the directory cannot be made,
\* or the embedding call fails) sets no index handle, adds no record and
\* leaves no persisted index where there was none: a load_existing that
\* follows still raises FileNotFoundError.
C11_CreateAllOrNothing ==
  [][(/\ last'.op = "ingest_documents"
      /\ "create_from_documents" \in Range(last'.calls)
      /\ last'.error # "none")
       => /\ vectorstore' = vectorstore
          /\ records' = records
          /\ ~persist_exists
               => (load_existing(Store(vectorstore, persist_exists,
                                       records)).error)'
                    = "FileNotFoundError"]_vars

\* the operations that query the store, and the calls that embed the
\* question and search the index
StoreQueryOps == {"similarity_search", "new_retriever.retrieve", "retrieve"}
SearchCalls == {"as_retriever", "invoke", "vectorstore.similarity_search"}

\* C12: before any create_from_documents or load_existing has succeeded,
\* similarity_search and DocumentRetriever.retrieve over the store raise
\* RuntimeError and make no embedding or search call.
C12_StoreQueryBeforeInitFails ==
  [][(~succeeded /\ last'.op \in StoreQueryOps)
       => /\ last'.error = "RuntimeError"
          /\ Range(last'.calls) \cap SearchCalls = {}
          /\ last'.search_k = NoneInt
          /\ last'.retrieved = <<>>]_vars

\* both ways in have been refused while an index lies unopened on disk
C12_Witness ==
  /\ ~succeeded /\ persist_exists /\ records # <<>>
  /\ last.op = "new_retriever.retrieve" /\ last.error = "RuntimeError"
  /\ last.calls = <<"get_retriever">>

\* a well-formed chunking configuration
WellFormed(config) ==
  /\ config.chunk_size > 0
  /\ config.chunk_overlap >= 0
  /\ config.chunk_overlap < config.chunk_size

\* C13: a TextProcessor with a malformed configuration (chunk_size <= 0,
\* chunk_overlap < 0 or chunk_overlap >= chunk_size) is rejected by the
\* constructor: none is ever constructed, so none reaches split_documents.
C13_MalformedConfigRejected ==
  (processor.error = "none" /\ call.op = "split_documents")
    => WellFormed(processor.config)

\* the separator list ends with the empty string
EndsWithEmpty(separators) ==
  separators # <<>> /\ separators[Len(separators)] = <<>>

\* C14: with a well-formed configuration whose separators end with the
\* empty string, no chunk split_documents returns is longer than chunk_size.
C14_ChunkSizeRespected ==
  (/\ call.op = "split_documents"
   /\ WellFormed(processor.config)
   /\ EndsWithEmpty(processor.config.separators))
    => \A i \in 1..Len(call.documents) :
         Len(call.documents[i].page_content) <= processor.config.chunk_size

\* a document longer than chunk_size was split into three chunks or more,
\* one of them as long as chunk_size
C14_Witness ==
  /\ call.op = "split_documents"
  /\ WellFormed(processor.config)
  /\ Len(source_documents) = 1
  /\ Len(source_documents[1].page_content) > processor.config.chunk_size
  /\ Len(call.documents) >= 3
  /\ \E i \in 1..Len(call.documents) :
       Len(call.documents[i].page_content) = processor.config.chunk_size

\* the document is no longer than chunk_size
FitsOneChunk ==
  /\ call.op = "split_documents"
  /\ Len(source_documents) = 1
  /\ Len(source_documents[1].page_content) <= processor.config.chunk_size

\* the one chunk, with the document's content
SingleChunk ==
  /\ Len(call.documents) = 1
  /\ call.documents[1].page_content = source_documents[1].page_content

\* C15 as stated: a document no longer than chunk_size comes back as
\* exactly one chunk with the document's content.
C15_SmallDocumentSingleChunk == FitsOneChunk => SingleChunk

\* text is not empty and neither starts nor ends with whitespace
Trimmed(text) ==
  /\ text # <<>>
  /\ text[1] \notin Whitespace
  /\ text[Len(text)] \notin Whitespace

\* C15 as amended: a document no longer than chunk_size whose content is
\* not empty and neither starts nor ends with whitespace comes back as
\* exactly one chunk with the document's content.
C15_TrimmedSmallDocumentSingleChunk ==
  (FitsOneChunk /\ Trimmed(source_documents[1].page_content)) => SingleChunk

\* a document exactly chunk_size long, with a separator inside, came back
\* whole
C15_Witness ==
  /\ FitsOneChunk /\ SingleChunk
  /\ source_documents[1].page_content = <<"a", " ", "a">>
  /\ processor.config.chunk_size = 3

\* chunk is an excerpt of doc tagged with its offset
ExcerptOf(chunk, doc) ==
  /\ DOMAIN chunk = DOMAIN doc \cup {"start_index"}
  /\ chunk.source = doc.source
  /\ chunk.start_index >= 0
  /\ chunk.start_index + Len(chunk.page_content) <= Len(doc.page_content)
  /\ SubSeq(doc.page_content, chunk.start_index + 1,
            chunk.start_index + Len(chunk.page_content)) = chunk.page_content

\* C16: every chunk of split_documents carries the metadata of its source
\* document plus start_index, and its content is the source's content at
\* offset start_index.
C16_ChunkIsTaggedExcerpt ==
  (call.op = "split_documents")
    => \A i \in 1..Len(call.documents) :
         \E j \in 1..Len(source_documents) :
           ExcerptOf(call.documents[i], source_documents[j])

\* two chunks with the same content, found at different offsets
C16_Witness ==
  /\ call.op = "split_documents"
  /\ Len(call.documents) >= 2
  /\ \E i, j \in 1..Len(call.documents) :
       /\ call.documents[i].page_content = call.documents[j].page_content
       /\ call.documents[i].start_index > 0
       /\ call.documents[j].start_index > call.documents[i].start_index

\* the number of language-model calls an operation made
ModelCalls(calls) == Cardinality({i \in 1..Len(calls) : calls[i] = "llm.invoke"})

\* C17: a generate that succeeds has called the language model exactly
\* once and returns the text of that call together with the context list
\* it was given, in the same order.
C17_GenerateReturnsTextAndContext ==
  (last.op = "generate" /\ last.error = "none")
    => /\ ModelCalls(last.calls) = 1
       /\ last.llm_response \in Answer
       /\ last.result.answer = last.llm_response
       /\ last.result.sources = [some |-> TRUE, docs |-> last.retrieved]

C17_Witness ==
  /\ last.op = "generate" /\ last.error = "none"
  /\ last.result.answer = "ans2"
  /\ last.result.sources.docs = <<NewChunk, OldChunk>>

\* C18: when the language-model call fails, generate has called the model
\* once only and raises that failure; a query raises it in turn and the
\* pipeline is as Ready after the call as it was before.
C18_GenerationFailurePropagates ==
  [][(last'.op \in {"generate", "query"}
      /\ last'.llm_response = "GenerationError")
       => /\ last'.error = "GenerationError"
          /\ ModelCalls(last'.calls) = 1
          /\ is_initialized' = is_initialized
          /\ last'.op = "query" => is_initialized'
          /\ retriever' = retriever /\ vectorstore' = vectorstore]_vars

C18_Witness ==
  /\ last.op = "query" /\ last.error = "GenerationError"
  /\ last.llm_response = "GenerationError"
  /\ last.retrieved # <<>>
  /\ is_initialized

\* the errors the loader raises for the sources ingest_documents is given
LoaderErrors ==
  {load_documents(src.file_path, src.directory, src.file_types,
                  src.recursive).error : src \in SourceArg} \ {"none"}

\* the error the collaborator called last may raise
RaisedBy(collaborator) ==
  CASE collaborator = "load_documents" -> LoaderErrors
    [] collaborator = "load_existing" -> {"FileNotFoundError"}
    [] collaborator = "create_from_documents" -> {"PermissionError"}
    [] collaborator = "embed_documents" -> {"EmbeddingError"}
    [] OTHER -> {}

\* C19: an ingest_documents that fails raises the error of the collaborator
\* it called last (the loader or the vector store), and the pipeline is as
\* Ready and has the same retriever after the call as before.
C19_IngestErrorsPropagate ==
  [][(last'.op = "ingest_documents" /\ last'.error # "none")
       => /\ last'.calls # <<>>
          /\ last'.error \in RaisedBy(last'.calls[Len(last'.calls)])
          /\ is_initialized' = is_initialized
          /\ retriever' = retriever]_vars

\* a Ready pipeline after a forced ingest of a missing file
C19_Witness ==
  /\ last.op = "ingest_documents" /\ last.force_recreate
  /\ last.error = "FileNotFoundError"
  /\ last.calls = <<"load_documents">>
  /\ is_initialized /\ retriever.bound

\* the files of a list that load
FilesLoaded(files) == SelectSeq(files, LAMBDA p : load_file(p).error = "none")

\* the documents of a list of files, in order
DocumentsOf(files) == [i \in 1..Len(files) |-> Document(files[i])]

\* the files load_directory found that load; none if it could not list them
FoundAndLoaded(found) ==
  IF found.error = "none" THEN FilesLoaded(found.value) ELSE <<>>

\* the files found for the arguments of the last call
FoundByCall ==
  list_files(call.args.directory, call.args.file_types, call.args.recursive)

\* C20 as stated: load_directory returns the documents of exactly the files
\* that load, and fails only when none does, with FileNotFoundError.
C20_LoadDirectoryFailsNotFound ==
  (call.op = "load_directory")
    => IF FoundAndLoaded(FoundByCall) # <<>>
         THEN /\ call.error = "none"
              /\ call.documents = DocumentsOf(FoundAndLoaded(FoundByCall))
         ELSE call.error = "FileNotFoundError"

\* C20 as amended: load_directory returns the documents of exactly the
\* files that load, and fails only when none does: with ValueError, or
\* with the error of list_files (FileNotFoundError for a directory that
\* does not exist) when the files could not be listed.
C20_LoadDirectorySkipsFailures ==
  (call.op = "load_directory")
    => IF FoundAndLoaded(FoundByCall) # <<>>
         THEN /\ call.error = "none"
              /\ call.documents = DocumentsOf(FoundAndLoaded(FoundByCall))
         ELSE call.error = (IF FoundByCall.error = "none" THEN "ValueError"
                            ELSE FoundByCall.error)

\* a file that does not load was found and skipped, the others came back
C20_Witness ==
  /\ call.op = "load_directory" /\ call.error = "none"
  /\ "c.txt" \in Range(FoundByCall.value)
  /\ call.documents = <<Document("a.txt"), Document("b.md")>>

\* the errors query raises
QueryErrors == {"RuntimeError", "AttributeError", "RetrievalError",
                "GenerationError"}

\* C21: in interactive_chat an error raised by query while a question is
\* handled is caught: the turn ends without raising and the loop goes on.
C21_ChatTurnErrorCaught ==
  [][(/\ chat = "loop" /\ last'.op = "chat_turn"
      /\ "query" \in Range(last'.calls)
      /\ (last'.error \in QueryErrors \/ last'.caught \in QueryErrors))
       => /\ last'.error = "none"
          /\ last'.caught \in QueryErrors
          /\ chat' = "loop"
          /\ is_initialized']_vars

\* a turn whose retrieval failed, the loop is still running
C21_Witness ==
  /\ chat = "loop" /\ last.op = "chat_turn"
  /\ last.caught = "RetrievalError" /\ last.error = "none"
  /\ last.line = <<" ", "q", "2", " ">>

\* C22: ingest_documents with neither file_path nor directory raises
\* ValueError.
C22_IngestWithoutSourceFails ==
  (last.op = "ingest_documents" /\ ~last.source_given)
    => last.error = "ValueError"

\* the operations of the pipeline a command runs
CommandOps == {"ingest_documents", "load_existing_index", "query", "chat_turn"}

\* C23: a run of main exits with code 1 when OPENAI_API_KEY is missing and
\* when its command raised an error (or main refused its arguments), and
\* with code 0 when the command returned.
C23_ExitCodes ==
  (process.exit_code # NoneInt)
    => /\ process.exit_code
            = (IF \/ process.api_key = ""
                  \/ process.usage
                  \/ process.raised # "none"
               THEN 1 ELSE 0)
       /\ (process.api_key # "" /\ last.op \in CommandOps)
            => process.raised = last.error

\* a query run that ended with 1 because the model call failed
C23_Witness ==
  /\ process.command = "query" /\ process.exit_code = 1
  /\ last.op = "query" /\ last.error = "GenerationError"

\* C24: a chunk_size or chunk_overlap given to the constructor is the value
\* the text processor uses, chunk_overlap = 0 included; the settings'
\* value is used only for an argument that was not given.
C24_ExplicitChunkConfigUsed ==
  constructed
    => /\ text_processor.chunk_size
            = (IF ctor.chunk_size = NoneInt THEN SettingsChunkSize
               ELSE ctor.chunk_size)
       /\ text_processor.chunk_overlap
            = (IF ctor.chunk_overlap = NoneInt THEN SettingsChunkOverlap
               ELSE ctor.chunk_overlap)

\* separators `later` is what is left of `earlier` after a separator of it
LaterSeparators(later, earlier) ==
  \E k \in 2..(Len(earlier) + 1) : later = SubSeq(earlier, k, Len(earlier))

\* C25: the recursion of _split_text over the separators terminates, for
\* every document and every valid configuration whose separators end
\* with "": each call that _split_text makes on itself is given only
\* separators later than the one it chose, and a split_documents that has
\* been called returns.
C25_SplitTextTerminates ==
  /\ [][(call.op = "_split_text" /\ frames # <<>>)
          => \A i \in 1..(Len(frames') - Len(frames) + 1) :
               LaterSeparators(frames'[i].separators,
                               Head(frames).separators)]_vars
  /\ (call.op = "_split_text") ~> (call.op = "split_documents")

\* split_documents has returned for one document after four calls of
\* _split_text or more, the first of them given the default separators
C25_Witness ==
  /\ call.op = "split_documents"
  /\ call.args.calls >= 4
  /\ Len(source_documents) = 1
  /\ processor.config.separators = DefaultSeparators

\* the lines read, by what the loop is to do with them
TerminatingLines ==
  {<<"q", "u", "i", "t">>, <<" ", "E", "x", "i", "t">>,
   <<"S", "T", "O", "P", " ">>}
EmptyLines == {<<>>, <<" ", " ">>}
QuestionLines ==
  {<<"q", "1">>, <<" ", "q", "2", " ">>, <<"q", "u", "i", "t", "s">>}

\* how many times an operation called query
QueryCalls(calls) == Cardinality({i \in 1..Len(calls) : calls[i] = "query"})

\* C26: on a Ready pipeline interactive_chat enters its loop; a turn that
\* reads a line calls query exactly once if the line is neither empty nor
\* a termination input, not at all if it is empty after trimming, and ends
\* the loop without calling query if it is quit, exit or stop in any case
\* after trimming. On an Uninitialized pipeline interactive_chat fails
\* with the not-initialized error before it reads anything.
C26_ChatLoop ==
  [][/\ (chat = "loop" /\ last'.op = "chat_turn"
           /\ last'.caught \notin {"EOFError", "KeyboardInterrupt"})
          => /\ last'.line \in TerminatingLines \cup EmptyLines \cup QuestionLines
             /\ last'.line \in TerminatingLines
                  => chat' = "idle" /\ QueryCalls(last'.calls) = 0
             /\ last'.line \in EmptyLines
                  => chat' = "loop" /\ QueryCalls(last'.calls) = 0
             /\ last'.line \in QuestionLines
                  => chat' = "loop" /\ QueryCalls(last'.calls) = 1
     /\ (chat = "idle" /\ last'.op = "interactive_chat")
          => IF is_initialized
               THEN chat' = "loop" /\ last'.error = "none"
               ELSE /\ chat' = "idle" /\ last'.error = "RuntimeError"
                    /\ last'.calls = <<>>]_vars

\* the session of a Ready pipeline has ended on the line " Exit"
C26_Witness ==
  /\ chat = "idle" /\ is_initialized
  /\ last.op = "chat_turn" /\ last.line = <<" ", "E", "x", "i", "t">>
  /\ last.calls = <<"input">>

\* the errors of a query that lacks its retriever or its index handle
NotQueryable == {"RuntimeError", "AttributeError"}

\* C27: a Ready pipeline can be queried: whenever the flag is set the
\* retriever is bound and the index handle is set, and a query made in
\* Ready, directly or by a chat turn, never fails for lack of either.
C27_ReadyImpliesQueryable ==
  is_initialized
    => /\ retriever.bound
       /\ vectorstore # 0
       /\ last.op = "query" => last.error \notin NotQueryable
       /\ last.op = "chat_turn" => last.caught \notin NotQueryable

\* Ready, with retriever and handle, after a forced ingest that failed in
\* the embedding
C27_Witness ==
  /\ is_initialized /\ retriever.bound /\ vectorstore # 0
  /\ last.op = "ingest_documents" /\ last.force_recreate
  /\ last.error = "EmbeddingError"

\* C28: when an ingest has failed while the index was being created and
\* no create has ever completed, the unforced ingest that follows starts
\* the build again instead of reusing what the failed attempt left, and
\* does not make the pipeline Ready over the index that was never filled.
C28_FailedCreateIsRebuilt ==
  [][(/\ chat = "idle"
      /\ last.op = "ingest_documents" /\ last.error = "EmbeddingError"
      /\ records = <<>>
      /\ last'.op = "ingest_documents" /\ ~last'.force_recreate)
       => /\ "load_documents" \in Range(last'.calls)
          /\ is_initialized' => records' # <<>>]_vars

\* C29: a successful ingest_documents or load_existing_index installs a
\* new index handle and a failed one leaves the handle that was there;
\* every query, direct or of a chat turn, searches the handle installed
\* at the time it is made: never the one a successful re-ingest replaced,
\* still the previous one after a re-ingest that failed.
C29_QuerySearchesCurrentHandle ==
  [][/\ last'.op \in {"ingest_documents", "load_existing_index"}
          => IF last'.error = "none"
               THEN vectorstore' # 0 /\ vectorstore' # vectorstore
               ELSE vectorstore' = vectorstore
     /\ (last'.op \in {"query", "chat_turn"} /\ last'.search_handle # 0)
          => /\ last'.search_handle = vectorstore
             /\ vectorstore' = vectorstore]_vars

\* a query has searched the second handle installed, over the records of
\* two ingests
C29_Witness ==
  /\ last.op = "query" /\ last.error = "none"
  /\ last.search_handle = 2 /\ vectorstore = 2
  /\ Len(records) = 2

\* C30: once the input stream is exhausted, so that every read raises
\* EOFError, the loop of interactive_chat ends.
C30_ChatEndsAtEndOfInput ==
  (chat = "loop" /\ stdin_eof) ~> (chat = "idle")

====
